---- MODULE Spec2Model ----
(***************************************************************************)
(* A model of src/app.py: the single-endpoint answering service.           *)
(*                                                                         *)
(* Strings are sequences of one-character strings, so that lower(),        *)
(* endswith(), `in` (substring), strip() and os.path.splitext are computed *)
(* as Python computes them.                                                *)
(*                                                                         *)
(* Python semantics the model relies on: `await e` evaluates e and then    *)
(* asks the value for an awaitable; a plain value (a bool, a bytes object) *)
(* is none, and the await raises TypeError.  is_file_allowed is a plain    *)
(* `def` (line 35) and ZipExtFile.read returns bytes, so the awaits of     *)
(* lines 284 and 108 raise; the seek/tell/read of an aiofiles handle are   *)
(* coroutine functions, so zipfile.ZipFile over such a handle (line 100)   *)
(* gets coroutine objects where it wants numbers and bytes and raises      *)
(* TypeError as well.                                                      *)
(***************************************************************************)
EXTENDS Integers, Sequences, FiniteSets, TLC

(***************************************************************************)
(* Bounds of the model.                                                    *)
(***************************************************************************)
NumReqs == 2

MaxEntries == 3

Reqs == 1..NumReqs

(***************************************************************************)
(* Strings.                                                                *)
(***************************************************************************)
Uppers == <<"A","B","C","D","E","F","G","H","I","J","K","L","M",
            "N","O","P","Q","R","S","T","U","V","W","X","Y","Z">>

Lowers == <<"a","b","c","d","e","f","g","h","i","j","k","l","m",
            "n","o","p","q","r","s","t","u","v","w","x","y","z">>

LowerChar(c) ==
    IF \E i \in 1..Len(Uppers) : Uppers[i] = c
    THEN Lowers[CHOOSE i \in 1..Len(Uppers) : Uppers[i] = c]
    ELSE c

\* str.lower()
Lower(s) == [i \in 1..Len(s) |-> LowerChar(s[i])]

\* pat in s
Contains(s, pat) ==
    \E i \in 0..(Len(s) - Len(pat)) : SubSeq(s, i + 1, i + Len(pat)) = pat

\* s.endswith(suf)
EndsWith(s, suf) ==
    /\ Len(s) >= Len(suf)
    /\ SubSeq(s, Len(s) - Len(suf) + 1, Len(s)) = suf

IsSpace(c) == c \in {" ", "\n", "\t"}

RECURSIVE LStrip(_)
LStrip(s) == IF s # <<>> /\ IsSpace(Head(s)) THEN LStrip(Tail(s)) ELSE s

RECURSIVE RStrip(_)
RStrip(s) ==
    IF s # <<>> /\ IsSpace(s[Len(s)]) THEN RStrip(SubSeq(s, 1, Len(s) - 1)) ELSE s

\* str.strip()
Strip(s) == RStrip(LStrip(s))

\* os.path.splitext(name)[1] of a name without directory part: the suffix
\* from the last dot on, unless that dot is one of the name's leading dots.
SplitExt(s) ==
    LET dots == {i \in 1..Len(s) : s[i] = "."}
        last == CHOOSE i \in dots : \A j \in dots : j <= i
    IN  IF dots = {} THEN <<>>
        ELSE IF \A j \in 1..(last - 1) : s[j] = "." THEN <<>>
        ELSE SubSeq(s, last, Len(s))

(***************************************************************************)
(* Configuration (lines 23-24).                                            *)
(***************************************************************************)
ALLOWED_EXTENSIONS ==
    { <<"c","s","v">>, <<"x","l","s","x">>, <<"x","l","s">>,
      <<"z","i","p">>, <<"m","d">> }

\* is_file_allowed: the name, lower-cased, ends with one of the allowed
\* words (no dot is asked for).
is_file_allowed(filename) ==
    \E ext \in ALLOWED_EXTENSIONS : EndsWith(Lower(filename), ext)

(***************************************************************************)
(* The requests the model sends: question texts and attachments.           *)
(***************************************************************************)
\* "code -s"
Q_CodeS == <<"c","o","d","e"," ","-","s">>

\* "Run Code -S"
Q_CodeSUpper == <<"R","u","n"," ","C","o","d","e"," ","-","S">>

\* "sha256sum"
Q_Sha == <<"s","h","a","2","5","6","s","u","m">>

\* "npx prettier|sha256sum"
Q_Prettier == <<"n","p","x"," ","p","r","e","t","t","i","e","r","|","s","h","a","2","5","6","s","u","m">>

\* "sum 1 2"
Q_Plain == <<"s","u","m"," ","1"," ","2">>

Questions == {Q_CodeS, Q_CodeSUpper, Q_Sha, Q_Prettier, Q_Plain}

P_CodeS == <<"c","o","d","e"," ","-","s">>

P_Sha256sum == <<"s","h","a","2","5","6","s","u","m">>

P_Prettier == <<"p","r","e","t","t","i","e","r">>

\* Attachment names: "a.exe", "a.md", "N.MD", "a.csv", "a.zip", "amd".
FileNames ==
    { <<"a",".","e","x","e">>, <<"a",".","m","d">>, <<"N",".","M","D">>,
      <<"a",".","c","s","v">>, <<"a",".","z","i","p">>, <<"a","m","d">> }

\* file: UploadFile = None
NoFile == [present |-> FALSE, filename |-> <<>>]

Files == {NoFile} \cup {[present |-> TRUE, filename |-> n] : n \in FileNames}

\* The extension of an attachment's name, without its dot and lower-cased:
\* what the allowed set {csv, xlsx, xls, zip, md} is a set of.
ExtensionOf(filename) ==
    LET e == Lower(SplitExt(filename))
    IN  IF e = <<>> THEN <<>> ELSE Tail(e)

(***************************************************************************)
(* The remote model collaborator (lines 223-275).                          *)
(***************************************************************************)
\* Response bodies the endpoint may send (JSON objects).
TextPart == [text |-> <<" ", "4", "2", "\n">>]

CallPart == [functionCall |-> "f"]

Candidate(parts) == [content |-> [parts |-> parts]]

Bodies ==
    << [candidates |-> << Candidate(<< TextPart >>) >>],
       [candidates |-> << >>],
       [promptFeedback |-> "blocked"],
       [candidates |-> << [finishReason |-> "SAFETY"] >>],
       [candidates |-> << [content |-> [role |-> "model"]] >>],
       [candidates |-> << Candidate(<< >>) >>],
       [candidates |-> << Candidate(<< CallPart >>) >>] >>

\* What requests.post meets: a failure of the transport, or a status and a body.
Exchanges ==
    {[net |-> n, ok |-> FALSE, body |-> 1] : n \in {"ConnectionError", "Timeout"}}
    \cup {[net |-> "ok", ok |-> FALSE, body |-> 1]}
    \cup {[net |-> "ok", ok |-> TRUE, body |-> b] : b \in 1..Len(Bodies)}

NoAnswer == [kind |-> "none", text |-> <<>>]

Returned(a) == [raised |-> FALSE, exc |-> "", answer |-> a]

Raised(e) == [raised |-> TRUE, exc |-> e, answer |-> NoAnswer]

\* candidates[0]['content']['parts'][0]['text'].strip() (line 270): each
\* subscript raises when the key or the index is missing, and none of
\* KeyError, IndexError is a RequestException.
ExtractText(candidates) ==
    LET c == candidates[1]
    IN  IF "content" \notin DOMAIN c THEN Raised("KeyError")
        ELSE IF "parts" \notin DOMAIN c.content THEN Raised("KeyError")
        ELSE IF c.content.parts = <<>> THEN Raised("IndexError")
        ELSE IF "text" \notin DOMAIN c.content.parts[1] THEN Raised("KeyError")
        ELSE Returned([kind |-> "model", text |-> Strip(c.content.parts[1].text)])

\* generate_response, from the try of line 254 on.
generate_response(exch) ==
    IF exch.net # "ok"
    THEN \* requests.post raised: except RequestException (line 274)
         Returned([kind |-> "llm_api_error", text |-> <<>>])
    ELSE IF ~exch.ok
    THEN \* raise_for_status() raised HTTPError (line 265)
         Returned([kind |-> "llm_api_error", text |-> <<>>])
    ELSE LET body == Bodies[exch.body]
             \* response.json().get('candidates', [])
             candidates == IF "candidates" \in DOMAIN body
                           THEN body.candidates ELSE <<>>
         IN  IF candidates # <<>>
             THEN ExtractText(candidates)
             ELSE Returned([kind |-> "no_candidates", text |-> <<>>])

\* The local-command rules of answer_question (lines 306-312), first match
\* wins: which branch a question and an attachment type select.
LocalCommandRule(q, file_type) ==
    IF Contains(Lower(q), P_Sha256sum) /\ file_type = "md"
    THEN "compute_sha256"
    ELSE IF /\ Contains(Lower(q), P_Prettier)
            /\ Contains(Lower(q), P_Sha256sum)
            /\ file_type = "md"
    THEN "prettier"
    ELSE IF Contains(Lower(q), P_CodeS)
    THEN "code_s"
    ELSE "none"

FileTypes == {"zip", "csv", "excel", "md", "unknown"}

(***************************************************************************)
(* State.                                                                  *)
(*   Requests (answer_question):                                           *)
(*     pc, question, file   where request r is and what it carries         *)
(*     answer               the handler's local `answer`                   *)
(*     response             what the caller gets: status 200 with the      *)
(*                          answer, or the error of an exception that left *)
(*                          the handler                                    *)
(*     steps                the steps request r has gone through           *)
(*     remoteCalls          calls of generate_response made for r          *)
(*   One call of identify_file_type: cpc, cfile, ctype, cprobes            *)
(*   One call of handle_zip_file:    zpc, zarchive, zresult                *)
(***************************************************************************)
VARIABLES pc, question, file, answer, response, steps, remoteCalls,
          cpc, cfile, ctype, cprobes,
          zpc, zarchive, zresult

reqVars == <<pc, question, file, answer, response, steps, remoteCalls>>

classifyVars == <<cpc, cfile, ctype, cprobes>>

zipVars == <<zpc, zarchive, zresult>>

vars == <<reqVars, classifyVars, zipVars>>

NoResponse == [status |-> 0, exc |-> "", detail |-> "", answer |-> NoAnswer]

\* JSONResponse(content={"answer": answer}) (line 324)
JSONResponse(a) == [status |-> 200, exc |-> "", detail |-> "", answer |-> a]

\* An exception other than HTTPException leaves the handler: the server
\* answers 500 and no {"answer": ...} body.
Unhandled(e) == [status |-> 500, exc |-> e, detail |-> "", answer |-> NoAnswer]

\* `await v` where v is a plain value and no awaitable: TypeError
\* ("object bool can't be used in 'await' expression").
AwaitValue(v) == [raised |-> TRUE, exc |-> "TypeError", value |-> v]

ReqIdle ==
    /\ pc = [r \in Reqs |-> "idle"]
    /\ question = [r \in Reqs |-> <<>>]
    /\ file = [r \in Reqs |-> NoFile]
    /\ answer = [r \in Reqs |-> NoAnswer]
    /\ response = [r \in Reqs |-> NoResponse]
    /\ steps = [r \in Reqs |-> <<>>]
    /\ remoteCalls = [r \in Reqs |-> 0]

ClassifyIdle ==
    /\ cpc = "idle"
    /\ cfile = [name |-> <<>>, content |-> "missing"]
    /\ ctype = "none"
    /\ cprobes = <<>>

ZipIdle ==
    /\ zpc = "idle"
    /\ zarchive = [exists |-> FALSE, entries |-> <<>>]
    /\ zresult = [kind |-> "none", exc |-> "", blocks |-> <<>>]

(***************************************************************************)
(* answer_question (lines 277-324).                                        *)
(***************************************************************************)
\* The server hands a form (question, optional file) to the handler.
Receive(r) ==
    /\ pc[r] = "idle"
    /\ \E q \in Questions, f \in Files :
          /\ question' = [question EXCEPT ![r] = q]
          /\ file' = [file EXCEPT ![r] = f]
    /\ pc' = [pc EXCEPT ![r] = "received"]
    /\ steps' = [steps EXCEPT ![r] = <<"received">>]
    /\ UNCHANGED <<answer, response, remoteCalls, classifyVars, zipVars>>

\* Lines 283-285, with an attachment: is_file_allowed returns a bool, the
\* await of that bool raises TypeError whatever the name, and nothing in the
\* handler catches it: neither the HTTPException of line 285 nor line 288
\* (mkdtemp) is reached.
ValidateFile(r) ==
    /\ pc[r] = "received"
    /\ file[r].present
    /\ LET a == AwaitValue(is_file_allowed(file[r].filename))
       IN  /\ a.raised
           /\ response' = [response EXCEPT ![r] = Unhandled(a.exc)]
    /\ pc' = [pc EXCEPT ![r] = "done"]
    /\ steps' = [steps EXCEPT ![r] = Append(@, "validation_raised")]
    /\ UNCHANGED <<question, file, answer, remoteCalls, classifyVars, zipVars>>

\* Lines 283, 321-322, without an attachment: the block of lines 284-319,
\* the local-command rules included, is skipped, answer is still None and
\* generate_response is called.  An exception it lets through leaves the
\* handler.
Delegate(r) ==
    /\ pc[r] = "received"
    /\ ~file[r].present
    /\ answer[r] = NoAnswer
    /\ \E exch \in Exchanges :
          LET res == generate_response(exch)
          IN  IF res.raised
              THEN /\ response' = [response EXCEPT ![r] = Unhandled(res.exc)]
                   /\ pc' = [pc EXCEPT ![r] = "done"]
                   /\ answer' = answer
              ELSE /\ answer' = [answer EXCEPT ![r] = res.answer]
                   /\ pc' = [pc EXCEPT ![r] = "answered"]
                   /\ response' = response
    /\ remoteCalls' = [remoteCalls EXCEPT ![r] = @ + 1]
    /\ steps' = [steps EXCEPT ![r] = Append(@, "remote_delegation")]
    /\ UNCHANGED <<question, file, classifyVars, zipVars>>

\* Line 324.
Respond(r) ==
    /\ pc[r] = "answered"
    /\ response' = [response EXCEPT ![r] = JSONResponse(answer[r])]
    /\ pc' = [pc EXCEPT ![r] = "done"]
    /\ steps' = [steps EXCEPT ![r] = Append(@, "responded")]
    /\ UNCHANGED <<question, file, answer, remoteCalls, classifyVars, zipVars>>

Init == ReqIdle /\ ClassifyIdle /\ ZipIdle

Next == \E r \in Reqs : Receive(r) \/ ValidateFile(r) \/ Delegate(r) \/ Respond(r)

Spec == Init /\ [][Next]_vars

(***************************************************************************)
(* identify_file_type (lines 39-72), called on its own.                    *)
(***************************************************************************)
\* File names: "a.csv", "b.XLSX", "c.xls", "d.zip", "e.md", "f.txt", "g", ".md",
\* "datacsv".
ClassifyNames ==
    { <<"a",".","c","s","v">>, <<"b",".","X","L","S","X">>, <<"c",".","x","l","s">>,
      <<"d",".","z","i","p">>, <<"e",".","m","d">>, <<"f",".","t","x","t">>,
      <<"g">>, <<".","m","d">>, <<"d","a","t","a","c","s","v">> }

\* What the file holds:
\*   missing      no file at the path
\*   empty        zero bytes
\*   header_only  one line of column names, zero data rows
\*   rows         column names and data rows
\*   workbook     a spreadsheet container (xlsx), whose bytes are no text
\*   binary       bytes that are neither text nor a spreadsheet container
Contents == {"missing", "empty", "header_only", "rows", "workbook", "binary"}

ClassifyInputs == [name : ClassifyNames, content : Contents]

\* extension_map (lines 44-50)
Ext_zip == <<".","z","i","p">>

Ext_csv == <<".","c","s","v">>

Ext_xlsx == <<".","x","l","s","x">>

Ext_xls == <<".","x","l","s">>

Ext_md == <<".","m","d">>

InExtensionMap(ext) == ext \in {Ext_zip, Ext_csv, Ext_xlsx, Ext_xls, Ext_md}

extension_map(ext) ==
    CASE ext = Ext_zip -> "zip"
      [] ext = Ext_csv -> "csv"
      [] ext = Ext_xlsx -> "excel"
      [] ext = Ext_xls -> "excel"
      [] ext = Ext_md -> "md"

\* pd.read_csv(file_path, nrows=1) (line 59): "ok" or the exception raised.
\* A file of zero bytes has no columns to parse (EmptyDataError); a header
\* line alone parses, to zero rows.
ReadCsvProbe(content) ==
    CASE content = "missing" -> "FileNotFoundError"
      [] content = "empty" -> "EmptyDataError"
      [] content = "header_only" -> "ok"
      [] content = "rows" -> "ok"
      [] content = "workbook" -> "UnicodeDecodeError"
      [] content = "binary" -> "UnicodeDecodeError"

\* pd.read_excel(file_path, nrows=1) (line 67): "ok" or the exception raised.
ReadExcelProbe(content) ==
    CASE content = "missing" -> "FileNotFoundError"
      [] content = "workbook" -> "ok"
      [] OTHER -> "ValueError"

\* Lines 57-64: where the CSV probe's outcome leads, as claimed for empty
\* files: EmptyDataError counted as a successful tabular-csv parse.
AfterCsvProbe_EmptyIsCsv(outcome) ==
    CASE outcome \in {"ok", "EmptyDataError"} -> [pc |-> "returned", type |-> "csv"]
      [] OTHER -> [pc |-> "probe_excel", type |-> "none"]

\* Lines 57-64: where the CSV probe's outcome leads.  `except EmptyDataError:
\* pass` leaves the try statement, so line 72 returns 'unknown' and the
\* spreadsheet probe, which sits in the `except Exception` clause, is not run.
AfterCsvProbe(outcome) ==
    CASE outcome = "ok" -> [pc |-> "returned", type |-> "csv"]
      [] outcome = "EmptyDataError" -> [pc |-> "returned", type |-> "unknown"]
      [] OTHER -> [pc |-> "probe_excel", type |-> "none"]

\* Lines 66-72.
AfterExcelProbe(outcome) ==
    IF outcome = "ok" THEN "excel" ELSE "unknown"

\* Lines 41-54.
CheckExtension ==
    /\ cpc = "called"
    /\ LET extension == Lower(SplitExt(cfile.name))
       IN  IF InExtensionMap(extension)
           THEN /\ ctype' = extension_map(extension)
                /\ cpc' = "returned"
           ELSE /\ ctype' = ctype
                /\ cpc' = "probe_csv"
    /\ UNCHANGED <<cfile, cprobes, reqVars, zipVars>>

\* Lines 57-64.
ProbeCsv ==
    /\ cpc = "probe_csv"
    /\ LET after == AfterCsvProbe(ReadCsvProbe(cfile.content))
       IN  /\ cpc' = after.pc
           /\ ctype' = after.type
    /\ cprobes' = Append(cprobes, "csv")
    /\ UNCHANGED <<cfile, reqVars, zipVars>>

\* Lines 66-72.
ProbeExcel ==
    /\ cpc = "probe_excel"
    /\ ctype' = AfterExcelProbe(ReadExcelProbe(cfile.content))
    /\ cpc' = "returned"
    /\ cprobes' = Append(cprobes, "excel")
    /\ UNCHANGED <<cfile, reqVars, zipVars>>

InitClassify ==
    /\ ReqIdle
    /\ ZipIdle
    /\ cpc = "called"
    /\ cfile \in ClassifyInputs
    /\ ctype = "none"
    /\ cprobes = <<>>

NextClassify == CheckExtension \/ ProbeCsv \/ ProbeExcel

SpecClassify == InitClassify /\ [][NextClassify]_vars

(***************************************************************************)
(* handle_zip_file (lines 94-126), called on its own.                      *)
(***************************************************************************)
\* Entry names: "a.csv", "d/", "b.md".
EntryNames == { <<"a",".","c","s","v">>, <<"d","/">>, <<"b",".","m","d">> }

RECURSIVE SeqsUpTo(_, _)
SeqsUpTo(S, n) ==
    IF n = 0 THEN {<<>>}
    ELSE LET shorter == SeqsUpTo(S, n - 1)
         IN  shorter \cup {Append(q, x) : q \in shorter, x \in S}

\* An archive at zip_path: whether a file is there, and the names of its
\* entries in the archive's own order.
Archives == [exists : BOOLEAN, entries : SeqsUpTo(EntryNames, MaxEntries)]

\* file.endswith('/') (line 103)
IsDirectoryEntry(name) == EndsWith(name, <<"/">>)

ZipError(e) == [kind |-> "error", exc |-> e, blocks |-> <<>>]

\* Line 99: aiofiles.open(zip_path, 'rb').  A missing file raises, and the
\* except clause of line 123 turns that into the error string.
OpenArchive ==
    /\ zpc = "called"
    /\ IF zarchive.exists
       THEN /\ zpc' = "opened"
            /\ zresult' = zresult
       ELSE /\ zpc' = "returned"
            /\ zresult' = ZipError("FileNotFoundError")
    /\ UNCHANGED <<zarchive, reqVars, classifyVars>>

\* Line 100: zipfile.ZipFile(zip_file, 'r') over the aiofiles handle.
\* ZipFile reads the end-of-central-directory record with zip_file.seek,
\* tell and read, which here return coroutine objects, and raises TypeError
\* on len() of one.  Lines 102-122 (the walk over the entries, the temporary
\* files, the per-entry reports) are not reached; lines 123-124 return the
\* error string.
ReadDirectory ==
    /\ zpc = "opened"
    /\ zresult' = ZipError("TypeError")
    /\ zpc' = "returned"
    /\ UNCHANGED <<zarchive, reqVars, classifyVars>>

InitZip ==
    /\ ReqIdle
    /\ ClassifyIdle
    /\ zpc = "called"
    /\ zarchive \in Archives
    /\ zresult = [kind |-> "none", exc |-> "", blocks |-> <<>>]

NextZip == OpenArchive \/ ReadDirectory

SpecZip == InitZip /\ [][NextZip]_vars

(***************************************************************************)
(* Properties.                                                             *)
(***************************************************************************)
Ended(r) == pc[r] = "done"

AsksCodeS(r) == Contains(Lower(question[r]), P_CodeS)

\* The attachment's extension is one of csv, xlsx, xls, zip, md.
ExtensionAllowed(r) == ExtensionOf(file[r].filename) \in ALLOWED_EXTENSIONS

\* C1: a request without attachment whose question, lower-cased, contains
\* "code -s" takes the local command path: generate_response is never called
\* for it and its answer is the outcome of run_command("code -s").
C1_CodeSWithoutFileIsLocal ==
    \A r \in Reqs :
        (pc[r] # "idle" /\ ~file[r].present /\ AsksCodeS(r)) =>
            /\ remoteCalls[r] = 0
            /\ Ended(r) => response[r].answer.kind = "command_output"

\* C2: every request that passed validation (no attachment, or an attachment
\* with an allowed extension; every attachment here is within the size
\* limit) ends with the success response {"answer":
\* <string>}; no failure downstream ends it with an unhandled exception.
C2_ValidatedRequestGetsAnswer ==
    \A r \in Reqs :
        (Ended(r) /\ (~file[r].present \/ ExtensionAllowed(r))) =>
            /\ response[r].status = 200
            /\ response[r].exc = ""
            /\ response[r].answer.kind # "none"

\* C4: a request with an attachment whose extension is not one of csv, xlsx,
\* xls, zip, md ends with the invalid-input error (400, "Invalid file type")
\* and has gone through no step but its reception; a request whose
\* attachment's extension is in the set is not stopped at validation.
C4_DisallowedExtensionIs400 ==
    \A r \in Reqs :
        (Ended(r) /\ file[r].present) =>
            IF ExtensionAllowed(r)
            THEN steps[r][Len(steps[r])] # "validation_raised"
            ELSE /\ response[r].status = 400
                 /\ response[r].detail = "Invalid file type"
                 /\ steps[r] = <<"received", "file_rejected">>

\* The order of steps of a request with an attachment, answered locally or
\* by the remote model.
StepsBefore ==
    <<"received", "file_validated", "file_saved", "file_classified",
      "file_summarized", "local_command_checked">>

StepsAfter == <<"file_cleaned_up", "responded">>

\* C8: a request with an (allowed) attachment goes through received, file
\* validated, file saved, file classified, file summarized, local-command
\* checked, local answer or remote delegation, file cleaned up, responded,
\* in this order and each once.
C8_AttachmentStepsInOrder ==
    \A r \in Reqs :
        (Ended(r) /\ file[r].present /\ ExtensionAllowed(r)) =>
            \/ steps[r] = StepsBefore \o <<"local_answer">> \o StepsAfter
            \/ steps[r] = StepsBefore \o <<"remote_delegation">> \o StepsAfter

\* The type identify_file_type gives a name whose extension is in its table.
TypeByExtension(filename) == extension_map(Lower(SplitExt(filename)))

\* C10: the formatter rule can be the one selected: for a request whose
\* question contains both "prettier" and "sha256sum" and whose attachment
\* is of type md (the only requests the rule's condition admits), the rule
\* chain chooses the formatter and not the plain SHA-256 computation.
C10_FormatterRuleSelected ==
    \A r \in Reqs :
        ( /\ pc[r] # "idle"
          /\ file[r].present
          /\ InExtensionMap(Lower(SplitExt(file[r].filename)))
          /\ TypeByExtension(file[r].filename) = "md"
          /\ Contains(Lower(question[r]), P_Prettier)
          /\ Contains(Lower(question[r]), P_Sha256sum) ) =>
            LocalCommandRule(question[r], TypeByExtension(file[r].filename)) = "prettier"

\* The per-entry reports of an archive: one per entry that is no directory,
\* in the archive's order (each name stands for the block
\* "File '<name>' in ZIP contains:\n<summary>").
IsFileEntry(name) == ~IsDirectoryEntry(name)

ExpectedBlocks(entries) == SelectSeq(entries, IsFileEntry)

\* C5: for a readable archive, handle_zip_file returns the summary made of
\* exactly one report block per non-directory entry, in the archive's order.
C5_OneBlockPerEntry ==
    (zpc = "returned" /\ zarchive.exists) =>
        /\ zresult.kind = "summary"
        /\ zresult.blocks = ExpectedBlocks(zarchive.entries)

Unmapped == ~InExtensionMap(Lower(SplitExt(cfile.name)))

\* C7 as stated: for an extension that is absent or not in the table, the
\* CSV probe and then the spreadsheet probe are tried and 'unknown' is
\* returned only after both; a file with empty content or zero data rows is
\* classified 'csv'.
C7_EmptyFileIsCsv ==
    (cpc = "returned" /\ Unmapped) =>
        /\ ctype = "unknown" => cprobes = <<"csv", "excel">>
        /\ cfile.content \in {"empty", "header_only"} => ctype = "csv"

\* C7 as amended: for an extension that is absent or not in the table, the
\* result is 'csv' when the CSV probe succeeds (a header with zero data rows
\* included); when the CSV probe raises EmptyDataError (empty content) the
\* result is 'unknown' and the spreadsheet probe is not tried; when it
\* raises anything else the spreadsheet probe is tried, and the result is
\* 'excel' if that succeeds and 'unknown' if it raises.
C7_ClassifyByProbes ==
    (cpc = "returned" /\ Unmapped) =>
        /\ cfile.content \in {"header_only", "rows"} =>
              ctype = "csv" /\ cprobes = <<"csv">>
        /\ cfile.content = "empty" =>
              ctype = "unknown" /\ cprobes = <<"csv">>
        /\ cfile.content = "workbook" =>
              ctype = "excel" /\ cprobes = <<"csv", "excel">>
        /\ cfile.content \in {"missing", "binary"} =>
              ctype = "unknown" /\ cprobes = <<"csv", "excel">>

\* An empty file without a known extension has been classified.
C7_EmptyFileClassified ==
    /\ cpc = "returned"
    /\ Unmapped
    /\ cfile.content = "empty"
    /\ ctype = "unknown"
    /\ cprobes = <<"csv">>

(***************************************************************************)
(* C3, C6 and C9 speak of the saved upload, its scoped directory and the   *)
(* temporary files extracted from an archive.  No behaviour of Spec or     *)
(* SpecZip creates any of them: ValidateFile ends every request with an    *)
(* attachment before line 288, and ReadDirectory ends every walk before    *)
(* line 111.  They have no state to be checked in.                         *)
(***************************************************************************)

====
